---- MODULE Spec2Model ----
(***************************************************************************)
(* The recommendation pipeline of multi_Agents/multi_agent.py: a LangGraph *)
(* StateGraph over RecommendationState with the nodes detect_comparison,   *)
(* gatekeeper, combined_agent, check_results, web and compile.             *)
(*                                                                         *)
(* Representation.  A Python dict is a function from its keys to values.   *)
(* An Optional value is a sequence of length at most one: <<>> is None and *)
(* <<v>> is v.  A list is a sequence.  A query is a sequence of            *)
(* characters; a summary text is a sequence of words.  The fixed messages  *)
(* are strings.  An outcome of an external call is a record                *)
(* [raised, value]: the call raised an exception, or returned value.       *)
(***************************************************************************)
EXTENDS Naturals, Integers, Sequences, FiniteSets, TLC

VARIABLES
    pc,           \* node about to run, or "early_exit" / "done" / "error"
    state,        \* the graph's channel values (RecommendationState)
    calls,        \* history: number of calls made to each external service
    classified,   \* history: Optional outcome of check_and_classify_query
    retrieved,    \* history: Optional outcome of validate_and_compare
    searched,     \* history: Optional outcome of WebSearchRecommender.recommend
    adequacy,     \* history: Optional value check_results_node returned as should_fallback
    trace,        \* history: the nodes run so far, in order
    loop          \* the event loop: which invocation runs, the state each was
                  \* started with, and the locals of the suspended invocation

vars == <<pc, state, calls, classified, retrieved, searched, adequacy, trace, loop>>

(***************************************************************************)
(* Bounds of the model.                                                    *)
(***************************************************************************)
MaxQueryLen == 2

MaxResults == 1

MaxAnalyzed == 1

(***************************************************************************)
(* Python helpers.                                                         *)
(***************************************************************************)
None == <<>>

Some(v) == <<v>>

\* dict.get(key, default)
Get(d, key, default) == IF key \in DOMAIN d THEN d[key] ELSE default

\* {**d, **u}
Overlay(d, u) ==
    [k \in (DOMAIN d) \cup (DOMAIN u) |-> IF k \in DOMAIN u THEN u[k] ELSE d[k]]

\* needle in hay, for str (contiguous subsequence)
Contains(hay, needle) ==
    \E i \in 0..Len(hay) :
        /\ i + Len(needle) <= Len(hay)
        /\ \A j \in 1..Len(needle) : hay[i + j] = needle[j]

LowerChar(c) ==
    CASE c = "A" -> "a"
      [] c = "B" -> "b"
      [] c = "C" -> "c"
      [] c = "D" -> "d"
      [] c = "E" -> "e"
      [] c = "F" -> "f"
      [] c = "G" -> "g"
      [] c = "H" -> "h"
      [] c = "I" -> "i"
      [] c = "J" -> "j"
      [] c = "K" -> "k"
      [] c = "L" -> "l"
      [] c = "M" -> "m"
      [] c = "N" -> "n"
      [] c = "O" -> "o"
      [] c = "P" -> "p"
      [] c = "Q" -> "q"
      [] c = "R" -> "r"
      [] c = "S" -> "s"
      [] c = "T" -> "t"
      [] c = "U" -> "u"
      [] c = "V" -> "v"
      [] c = "W" -> "w"
      [] c = "X" -> "x"
      [] c = "Y" -> "y"
      [] c = "Z" -> "z"
      [] OTHER -> c

\* str.lower()
Lower(s) == [i \in 1..Len(s) |-> LowerChar(s[i])]

\* all sequences over S of length at most n
SeqUpTo(S, n) == UNION {[1..m -> S] : m \in 0..n}

(***************************************************************************)
(* The state schema: StateGraph(RecommendationState) has one channel per   *)
(* key of the TypedDict.  A key a node returns that is no channel is not   *)
(* written (should_fallback is none of them).                              *)
(***************************************************************************)
RecommendationState ==
    {"user_query", "is_college_related", "is_comparison_query",
     "safety_check_passed", "combined_agent_results", "snowflake_results",
     "rag_results", "web_results", "final_output", "early_response",
     "fallback_used", "fallback_message"}

\* the graph applies a node's returned update to the channels
ApplyWrites(s, update) ==
    [k \in (DOMAIN s) \cup ((DOMAIN update) \cap RecommendationState) |->
        IF k \in DOMAIN update THEN update[k] ELSE s[k]]

(***************************************************************************)
(* Fixed texts.                                                            *)
(***************************************************************************)
COMPARISON_RESPONSE ==
    "I specialize in college recommendations, not comparisons. Please ask about specific programs or colleges."

STANDARD_RESPONSE ==
    "Sorry I can't do that. I can assist you with college recommendations."

PRIMARY_ERROR_MESSAGE == "Error processing your request"

WEB_FALLBACK_MESSAGE ==
    "We're using web search results as a fallback since we couldn't find relevant information in our databases."

comparison_keywords ==
    { <<"c","o","m","p","a","r","e">>, <<"v","s">>, <<"v","e","r","s","u","s">>,
      <<"d","i","f","f","e","r","e","n","c","e">>, <<"b","e","t","t","e","r">>,
      <<"w","o","r","s","e">>, <<"r","a","n","k","i","n","g">> }

\* the marker "(x) No valid data found", (x) standing for the cross mark U+274C
SENTINEL == <<"(x)", "No", "valid", "data", "found">>

(***************************************************************************)
(* Inputs: the queries and what the external services can answer.          *)
(***************************************************************************)
Alphabet == {"v", "V", "s", "S", " "}

SampleQueries ==
    { <<"M","B","A">>, <<"B","e","t","t","e","r"," ","M","B","A">>,
      <<"c","a","n","v","a","s">>, <<"R","A","N","K","I","N","G">> }

Queries == SeqUpTo(Alphabet, MaxQueryLen) \cup SampleQueries

Raised == [raised |-> TRUE]

Returned(v) == [raised |-> FALSE, value |-> v]

\* check_and_classify_query: a dict with is_college_related, safety_check_passed
\* and context, and a response that is absent, None or a text
ClassificationFields ==
    [is_college_related : BOOLEAN, safety_check_passed : BOOLEAN,
     context : {"college", "other", "unsafe"}]

Classifications ==
    ClassificationFields
    \cup {Overlay(c, [response |-> r]) :
            c \in ClassificationFields, r \in {None, Some("Please ask about colleges.")}}

ClassifyOutcomes == {Raised} \cup {Returned(c) : c \in Classifications}

Records == {[name |-> "Stanford MBA"]}

ResultSets == SeqUpTo(Records, MaxResults)

Summaries ==
    { <<>>, <<"Top", "programs">>, SENTINEL,
      <<"RAG:">> \o SENTINEL \o <<"in", "documents">> }

\* validate_and_compare: a dict with combined_agent_results (None or a text, or
\* absent) and the optional keys snowflake_results and rag_results
PrimaryResults ==
    LET summaryPart == {<<>>} \cup
                       {[combined_agent_results |-> x] :
                            x \in {None} \cup {Some(t) : t \in Summaries}}
        snowPart == {<<>>} \cup {[snowflake_results |-> l] : l \in ResultSets}
        ragPart == {<<>>} \cup {[rag_results |-> l] : l \in ResultSets}
    IN  {Overlay(Overlay(a, b), c) : a \in summaryPart, b \in snowPart, c \in ragPart}

PrimaryOutcomes == {Raised} \cup {Returned(r) : r \in PrimaryResults}

WebResults ==
    [response : {"Web answer"}, results_analyzed : 0..MaxAnalyzed]

WebOutcomes == {Raised} \cup {Returned(r) : r \in WebResults}

(***************************************************************************)
(* The nodes.  Each operator is the node function: from the state the node *)
(* is given (and the outcome of its external call) to the update it        *)
(* returns.                                                                *)
(***************************************************************************)
\* detect_comparison_node matching the keywords against the query as typed
detect_comparison_node_case_sensitive(s) ==
    LET is_comparison == \E keyword \in comparison_keywords :
                            Contains(s["user_query"], keyword)
    IN  [is_comparison_query |-> is_comparison,
         early_response |-> IF is_comparison THEN Some(COMPARISON_RESPONSE) ELSE None]

detect_comparison_node(s) ==
    LET query_lower == Lower(s["user_query"])
        is_comparison == \E keyword \in comparison_keywords :
                            Contains(query_lower, keyword)
    IN  [is_comparison_query |-> is_comparison,
         early_response |-> IF is_comparison THEN Some(COMPARISON_RESPONSE) ELSE None]

\* check_prompt_node awaits the classifier unless the query is already flagged
CallsClassifier(s) == ~Get(s, "is_comparison_query", FALSE)

check_prompt_node(s, classification) ==
    IF Get(s, "is_comparison_query", FALSE)
    THEN [is_college_related |-> FALSE,
          safety_check_passed |-> FALSE,
          early_response |-> Get(s, "early_response", Some(STANDARD_RESPONSE))]
    ELSE IF classification["context"] # "college"
    THEN [is_college_related |-> FALSE,
          safety_check_passed |-> classification["safety_check_passed"],
          early_response |-> Get(classification, "response", Some(STANDARD_RESPONSE))]
    ELSE [is_college_related |-> TRUE,
          safety_check_passed |-> TRUE]

\* the try block of query_combined_agent_node raises when the call raises, when
\* len() is given None (the summary's length is printed) and when the key
\* combined_agent_results is missing from the result
PrimaryTryRaises(outcome) ==
    \/ outcome.raised
    \/ Get(outcome.value, "combined_agent_results", Some(<<>>)) = None
    \/ "combined_agent_results" \notin DOMAIN outcome.value

\* query_combined_agent_node whose except branch leaves fallback_used false
query_combined_agent_node_quiet(s, outcome) ==
    IF PrimaryTryRaises(outcome)
    THEN Overlay(s, [combined_agent_results |-> None,
                     snowflake_results |-> <<>>,
                     rag_results |-> <<>>,
                     fallback_used |-> FALSE,
                     fallback_message |-> Some(PRIMARY_ERROR_MESSAGE)])
    ELSE Overlay(s, [combined_agent_results |-> outcome.value["combined_agent_results"],
                     snowflake_results |-> Get(outcome.value, "snowflake_results", <<>>),
                     rag_results |-> Get(outcome.value, "rag_results", <<>>),
                     fallback_used |-> FALSE])

\* query_combined_agent_node marking the fallback as used on success too
query_combined_agent_node_marking(s, outcome) ==
    IF PrimaryTryRaises(outcome)
    THEN Overlay(s, [combined_agent_results |-> None,
                     snowflake_results |-> <<>>,
                     rag_results |-> <<>>,
                     fallback_used |-> TRUE,
                     fallback_message |-> Some(PRIMARY_ERROR_MESSAGE)])
    ELSE Overlay(s, [combined_agent_results |-> outcome.value["combined_agent_results"],
                     snowflake_results |-> Get(outcome.value, "snowflake_results", <<>>),
                     rag_results |-> Get(outcome.value, "rag_results", <<>>),
                     fallback_used |-> TRUE])

query_combined_agent_node(s, outcome) ==
    IF PrimaryTryRaises(outcome)
    THEN Overlay(s, [combined_agent_results |-> None,
                     snowflake_results |-> <<>>,
                     rag_results |-> <<>>,
                     fallback_used |-> TRUE,
                     fallback_message |-> Some(PRIMARY_ERROR_MESSAGE)])
    ELSE Overlay(s, [combined_agent_results |-> outcome.value["combined_agent_results"],
                     snowflake_results |-> Get(outcome.value, "snowflake_results", <<>>),
                     rag_results |-> Get(outcome.value, "rag_results", <<>>),
                     fallback_used |-> FALSE])

\* truth value of an Optional[str]: None and "" are false
TruthyText(x) == x # None /\ x[1] # <<>>

\* check_results_node falling back as soon as one of the result sets is empty
check_results_node_either(s) ==
    LET no_data == \/ Get(s, "snowflake_results", None) = <<>>
                   \/ Get(s, "rag_results", None) = <<>>
        combined_empty == /\ TruthyText(Get(s, "combined_agent_results", None))
                          /\ Contains(s["combined_agent_results"][1], SENTINEL)
    IN  IF no_data \/ combined_empty
        THEN [should_fallback |-> TRUE]
        ELSE [should_fallback |-> FALSE]

check_results_node(s) ==
    LET no_data == /\ Get(s, "snowflake_results", None) = <<>>
                   /\ Get(s, "rag_results", None) = <<>>
        combined_empty == /\ TruthyText(Get(s, "combined_agent_results", None))
                          /\ Contains(s["combined_agent_results"][1], SENTINEL)
    IN  IF no_data \/ combined_empty
        THEN [should_fallback |-> TRUE]
        ELSE [should_fallback |-> FALSE]

\* query_web_node whose except branch marks the fallback as used, as the
\* except branch of query_combined_agent_node does
query_web_node_symmetric(s, outcome) ==
    IF outcome.raised
    THEN [web_results |-> <<>>,
          fallback_used |-> TRUE]
    ELSE [web_results |->
              << [text |-> outcome.value.response,
                  metadata |-> [source |-> "web_search_fallback",
                                results_analyzed |-> outcome.value.results_analyzed]] >>,
          fallback_used |-> TRUE,
          fallback_message |-> Some(WEB_FALLBACK_MESSAGE)]

query_web_node(s, outcome) ==
    IF outcome.raised
    THEN [web_results |-> <<>>,
          fallback_used |-> FALSE]
    ELSE [web_results |->
              << [text |-> outcome.value.response,
                  metadata |-> [source |-> "web_search_fallback",
                                results_analyzed |-> outcome.value.results_analyzed]] >>,
          fallback_used |-> TRUE,
          fallback_message |-> Some(WEB_FALLBACK_MESSAGE)]

\* compile_results stamping the output with a clock (datetime is imported):
\* the number of nodes the event loop has run so far
compile_results_timestamped(s) ==
    LET output == [query |-> s["user_query"],
                   combined_output |-> Get(s, "combined_agent_results", None),
                   snowflake |-> Get(s, "snowflake_results", <<>>),
                   rag |-> Get(s, "rag_results", <<>>),
                   timestamp |-> Len(trace) +
                                 (IF loop.suspended = None
                                  THEN 0
                                  ELSE Len(loop.suspended[1].trace))]
    IN  [final_output |->
            Some(IF Get(s, "fallback_used", FALSE)
                 THEN Overlay(output, [web |-> Get(s, "web_results", <<>>),
                                       fallback_used |-> TRUE,
                                       fallback_message |-> Get(s, "fallback_message", Some(""))])
                 ELSE Overlay(output, [web |-> <<>>,
                                       fallback_used |-> FALSE]))]

compile_results(s) ==
    LET output == [query |-> s["user_query"],
                   combined_output |-> Get(s, "combined_agent_results", None),
                   snowflake |-> Get(s, "snowflake_results", <<>>),
                   rag |-> Get(s, "rag_results", <<>>)]
    IN  [final_output |->
            Some(IF Get(s, "fallback_used", FALSE)
                 THEN Overlay(output, [web |-> Get(s, "web_results", <<>>),
                                       fallback_used |-> TRUE,
                                       fallback_message |-> Get(s, "fallback_message", Some(""))])
                 ELSE Overlay(output, [web |-> <<>>,
                                       fallback_used |-> FALSE]))]

(***************************************************************************)
(* The edges.  The branch label early_exit and the edge out of compile     *)
(* both lead to END; the model keeps them apart as "early_exit" and        *)
(* "done".                                                                 *)
(***************************************************************************)
detect_comparison_edge(s) ==
    IF Get(s, "is_comparison_query", FALSE) THEN "early_exit" ELSE "gatekeeper"

gatekeeper_edge(s) ==
    IF ~s["is_college_related"] \/ ~s["safety_check_passed"]
    THEN "early_exit"
    ELSE "combined_agent"

\* the edge out of check_results retrying the primary retrieval on no data
check_results_edge_retry(s) ==
    IF /\ Get(s, "snowflake_results", <<>>) = <<>>
       /\ Get(s, "rag_results", <<>>) = <<>>
    THEN "combined_agent"
    ELSE "compile"

check_results_edge(s) ==
    IF Get(s, "should_fallback", FALSE) THEN "web" ELSE "compile"

(***************************************************************************)
(* The initial state a caller hands to app.ainvoke.                        *)
(***************************************************************************)
\* the dict of the __main__ block
MainInitialState(query) ==
    [user_query |-> query,
     is_college_related |-> FALSE,
     safety_check_passed |-> FALSE,
     early_response |-> None,
     combined_agent_results |-> None,
     web_results |-> <<>>,
     final_output |-> None,
     fallback_used |-> FALSE,
     fallback_message |-> None]

\* the dict of test_workflow
TestInitialState(query) ==
    Overlay(MainInitialState(query), [snowflake_results |-> <<>>, rag_results |-> <<>>])

NoCalls == [classify |-> 0, primary |-> 0, web |-> 0]

\* one invocation, started with initial_state, and none suspended
SingleInvocation(initial_state) ==
    [running |-> 1, initial |-> <<initial_state>>, suspended |-> None]

Init ==
    /\ pc = "detect_comparison"
    /\ \E query \in Queries :
          state \in {MainInitialState(query), TestInitialState(query)}
    /\ calls = NoCalls
    /\ classified = None
    /\ retrieved = None
    /\ searched = None
    /\ adequacy = None
    /\ trace = <<>>
    /\ loop = SingleInvocation(state)

(***************************************************************************)
(* One action per node: the node runs, the graph writes its update to the  *)
(* channels and follows the edge out of the node.                          *)
(***************************************************************************)
Run_detect_comparison ==
    /\ pc = "detect_comparison"
    /\ state' = ApplyWrites(state, detect_comparison_node(state))
    /\ pc' = detect_comparison_edge(state')
    /\ trace' = Append(trace, "detect_comparison")
    /\ UNCHANGED <<calls, classified, retrieved, searched, adequacy, loop>>

Run_gatekeeper ==
    /\ pc = "gatekeeper"
    /\ trace' = Append(trace, "gatekeeper")
    /\ IF CallsClassifier(state)
       THEN \E outcome \in ClassifyOutcomes :
               /\ calls' = [calls EXCEPT !.classify = @ + 1]
               /\ classified' = Some(outcome)
               /\ IF outcome.raised
                  THEN \* no try around the call: the exception leaves the graph
                       /\ state' = state
                       /\ pc' = "error"
                  ELSE /\ state' = ApplyWrites(state, check_prompt_node(state, outcome.value))
                       /\ pc' = gatekeeper_edge(state')
       ELSE /\ state' = ApplyWrites(state, check_prompt_node(state, None))
            /\ pc' = gatekeeper_edge(state')
            /\ UNCHANGED <<calls, classified>>
    /\ UNCHANGED <<retrieved, searched, adequacy, loop>>

Run_combined_agent ==
    /\ pc = "combined_agent"
    /\ \E outcome \in PrimaryOutcomes :
          /\ calls' = [calls EXCEPT !.primary = @ + 1]
          /\ retrieved' = Some(outcome)
          /\ state' = ApplyWrites(state, query_combined_agent_node(state, outcome))
    /\ pc' = "check_results"
    /\ trace' = Append(trace, "combined_agent")
    /\ UNCHANGED <<classified, searched, adequacy, loop>>

Run_check_results ==
    /\ pc = "check_results"
    /\ LET update == check_results_node(state)
       IN  /\ adequacy' = Some(update["should_fallback"])
           /\ state' = ApplyWrites(state, update)
    /\ pc' = check_results_edge(state')
    /\ trace' = Append(trace, "check_results")
    /\ UNCHANGED <<calls, classified, retrieved, searched, loop>>

Run_web ==
    /\ pc = "web"
    /\ \E outcome \in WebOutcomes :
          /\ calls' = [calls EXCEPT !.web = @ + 1]
          /\ searched' = Some(outcome)
          /\ state' = ApplyWrites(state, query_web_node(state, outcome))
    /\ pc' = "compile"
    /\ trace' = Append(trace, "web")
    /\ UNCHANGED <<classified, retrieved, adequacy, loop>>

Run_compile ==
    /\ pc = "compile"
    /\ state' = ApplyWrites(state, compile_results(state))
    /\ pc' = "done"
    /\ trace' = Append(trace, "compile")
    /\ UNCHANGED <<calls, classified, retrieved, searched, adequacy, loop>>

(***************************************************************************)
(* Spec: app.ainvoke on a caller's initial state.  The web node is not     *)
(* among its actions: no state of SpecGraph, which has it, is at "web"     *)
(* (WebNeverEntered), so the two have the same behaviours.                 *)
(***************************************************************************)
Next ==
    \/ Run_detect_comparison
    \/ Run_gatekeeper
    \/ Run_combined_agent
    \/ Run_check_results
    \/ Run_compile

Spec == Init /\ [][Next]_vars

SpecGraph == Init /\ [][Next \/ Run_web]_vars

WebNeverEntered == pc # "web"

(***************************************************************************)
(* SpecNodes: the nodes from check_results on, entered with any pipeline   *)
(* state of the schema's types, and the edges out of them.                 *)
(***************************************************************************)
NodeQueries == {<<"M","B","A">>, <<"v","s">>}

NodeStates ==
    [user_query : NodeQueries,
     is_college_related : {TRUE},
     is_comparison_query : {FALSE},
     safety_check_passed : {TRUE},
     combined_agent_results : {None} \cup {Some(t) : t \in Summaries},
     snowflake_results : ResultSets,
     rag_results : ResultSets,
     web_results : {<<>>},
     final_output : {None},
     early_response : {None},
     fallback_used : BOOLEAN,
     fallback_message : {None, Some(PRIMARY_ERROR_MESSAGE)}]

InitNodes ==
    /\ pc \in {"check_results", "web"}
    /\ state \in NodeStates
    /\ calls = NoCalls
    /\ classified = None
    /\ retrieved = None
    /\ searched = None
    /\ adequacy = None
    /\ trace = <<>>
    /\ loop = SingleInvocation(state)

NextNodes ==
    \/ Run_check_results
    \/ Run_web
    \/ Run_compile

SpecNodes == InitNodes /\ [][NextNodes]_vars

(***************************************************************************)
(* SpecPair: two invocations of app.ainvoke on one event loop.  One runs   *)
(* at a time; between two nodes the loop may suspend it and resume the     *)
(* other.  Each invocation has its own channels and history.  The services *)
(* answer from a few of their possible answers.                            *)
(***************************************************************************)
\* the locals of the running invocation
Locals ==
    [pc |-> pc, state |-> state, calls |-> calls, classified |-> classified,
     retrieved |-> retrieved, searched |-> searched, adequacy |-> adequacy,
     trace |-> trace]

\* the channels a resumed invocation works on, `own` being those it was
\* suspended with and `current` those of the invocation that ran last, as if
\* the state were one module-level dict
ResumedState_global(own, current) == current

\* the channels a resumed invocation works on: its own, whatever the
\* invocation that ran last did to `current`
ResumedState(own, current) == own

Switch ==
    /\ loop.suspended # None
    /\ LET other == loop.suspended[1]
       IN  /\ pc' = other.pc
           /\ state' = ResumedState(other.state, state)
           /\ calls' = other.calls
           /\ classified' = other.classified
           /\ retrieved' = other.retrieved
           /\ searched' = other.searched
           /\ adequacy' = other.adequacy
           /\ trace' = other.trace
    /\ loop' = [loop EXCEPT !.running = 3 - @, !.suspended = Some(Locals)]

PairQueries == {<<"M","B","A">>, <<"c","a","n","v","a","s">>, <<"V","S">>}

PairClassifyOutcomes ==
    { Raised,
      Returned([is_college_related |-> TRUE, safety_check_passed |-> TRUE,
                context |-> "college"]),
      Returned([is_college_related |-> FALSE, safety_check_passed |-> TRUE,
                context |-> "other", response |-> Some("Please ask about colleges.")]),
      Returned([is_college_related |-> FALSE, safety_check_passed |-> FALSE,
                context |-> "unsafe", response |-> None]) }

PairPrimaryOutcomes ==
    { Raised,
      Returned([combined_agent_results |-> Some(<<"Top", "programs">>),
                snowflake_results |-> <<[name |-> "Stanford MBA"]>>,
                rag_results |-> <<>>]),
      Returned([combined_agent_results |-> Some(SENTINEL),
                snowflake_results |-> <<>>,
                rag_results |-> <<>>]) }

\* the answers given so far are among those of the pair
PairInputs ==
    /\ classified \in {None} \cup {Some(o) : o \in PairClassifyOutcomes}
    /\ retrieved \in {None} \cup {Some(o) : o \in PairPrimaryOutcomes}

InitPair ==
    /\ pc = "detect_comparison"
    /\ calls = NoCalls
    /\ classified = None
    /\ retrieved = None
    /\ searched = None
    /\ adequacy = None
    /\ trace = <<>>
    /\ \E q1 \in PairQueries, q2 \in PairQueries :
          /\ state = MainInitialState(q1)
          /\ loop = [running |-> 1,
                     initial |-> <<MainInitialState(q1), MainInitialState(q2)>>,
                     suspended |-> Some([pc |-> "detect_comparison",
                                         state |-> MainInitialState(q2),
                                         calls |-> NoCalls,
                                         classified |-> None,
                                         retrieved |-> None,
                                         searched |-> None,
                                         adequacy |-> None,
                                         trace |-> <<>>])]

Pair_gatekeeper == Run_gatekeeper /\ PairInputs'

Pair_combined_agent == Run_combined_agent /\ PairInputs'

NextPair ==
    \/ Run_detect_comparison
    \/ Pair_gatekeeper
    \/ Pair_combined_agent
    \/ Run_check_results
    \/ Run_compile
    \/ Switch

SpecPair == InitPair /\ [][NextPair]_vars

(***************************************************************************)
(* What the claims speak of.                                               *)
(***************************************************************************)
EarlyResponse == Get(state, "early_response", None)

FinalOutput == Get(state, "final_output", None)

\* a comparison marker occurs in the query, whatever the case of its letters
HasComparisonMarker(query) ==
    \E keyword \in comparison_keywords :
        \E i \in 1..Len(query) :
            /\ i + Len(keyword) - 1 <= Len(query)
            /\ \A j \in 1..Len(keyword) : LowerChar(query[i + j - 1]) = keyword[j]

ClassifierReturned == classified # None /\ ~classified[1].raised

ClassifierRaised == classified # None /\ classified[1].raised

PrimaryReturned == retrieved # None /\ ~retrieved[1].raised

PrimaryRaised == retrieved # None /\ retrieved[1].raised

WebRaised == searched # None /\ searched[1].raised

\* the primary service returned a result with its summary key, at least one
\* non-empty result set and no sentinel marker in the summary
PrimaryUsable ==
    /\ PrimaryReturned
    /\ LET result == retrieved[1].value
       IN  /\ "combined_agent_results" \in DOMAIN result
           /\ \/ Get(result, "snowflake_results", <<>>) # <<>>
              \/ Get(result, "rag_results", <<>>) # <<>>
           /\ \/ result["combined_agent_results"] = None
              \/ ~Contains(result["combined_agent_results"][1], SENTINEL)

BothSetsEmpty ==
    /\ Get(state, "snowflake_results", <<>>) = <<>>
    /\ Get(state, "rag_results", <<>>) = <<>>

(***************************************************************************)
(* C1: at the end of every invocation exactly one of early_response and    *)
(* final_output is non-null.                                               *)
(***************************************************************************)
C1_ExactlyOneResult ==
    pc \in {"early_exit", "done"} =>
        ((EarlyResponse # None) # (FinalOutput # None))

(***************************************************************************)
(* C2: no failure of an external service reaches the caller: the           *)
(* invocation never ends in an error state.                                *)
(***************************************************************************)
C2_NoFailureReachesCaller == pc # "error"

(***************************************************************************)
(* C3: when the classification call fails, the query is denied: early exit *)
(* with is_college_related false and the rejection message, and no primary *)
(* retrieval.                                                              *)
(***************************************************************************)
C3_ClassifierFailureDenies ==
    ClassifierRaised =>
        /\ pc = "early_exit"
        /\ state["is_college_related"] = FALSE
        /\ EarlyResponse = Some(STANDARD_RESPONSE)
        /\ calls.primary = 0

(***************************************************************************)
(* C4: a query with a comparison marker (in any case) ends at early_exit   *)
(* with the comparison message and no final_output, and no service is      *)
(* called on the way.                                                      *)
(***************************************************************************)
C4_ComparisonShortCircuits ==
    HasComparisonMarker(state["user_query"]) =>
        /\ pc \in {"detect_comparison", "early_exit"}
        /\ calls = NoCalls
        /\ pc = "early_exit" =>
              /\ EarlyResponse = Some(COMPARISON_RESPONSE)
              /\ FinalOutput = None
              /\ trace = <<"detect_comparison">>

C4_Witness ==
    /\ pc = "early_exit"
    /\ HasComparisonMarker(state["user_query"])
    /\ Lower(state["user_query"]) # state["user_query"]
    /\ EarlyResponse = Some(COMPARISON_RESPONSE)

(***************************************************************************)
(* C5: when the classifier reports a context other than college, the       *)
(* invocation ends at early_exit with a non-null early_response (the       *)
(* service's text, or the rejection message when it supplies none), no     *)
(* primary results and no retrieval call.                                  *)
(***************************************************************************)
C5_RejectionHasResponse ==
    (ClassifierReturned /\ classified[1].value["context"] # "college") =>
        LET supplied == Get(classified[1].value, "response", None)
        IN  /\ pc = "early_exit"
            /\ EarlyResponse # None
            /\ EarlyResponse = IF supplied = None THEN Some(STANDARD_RESPONSE) ELSE supplied
            /\ Get(state, "combined_agent_results", None) = None
            /\ BothSetsEmpty
            /\ calls.primary = 0
            /\ calls.web = 0

C7_UsableResultsNoFallback ==
    PrimaryUsable =>
        /\ adequacy # None => adequacy = Some(FALSE)
        /\ calls.web = 0
        /\ pc # "web"

C9_FailedFallbackNotUsed ==
    WebRaised =>
        /\ pc \in {"compile", "done"}
        /\ calls.web = 1
        /\ pc = "done" =>
              /\ FinalOutput # None
              /\ FinalOutput[1]["fallback_used"] = FALSE
              /\ FinalOutput[1]["web"] = <<>>

\* the fallback failed on a state as a failed primary retrieval leaves it
C9_Witness ==
    /\ pc = "done"
    /\ WebRaised
    /\ trace = <<"web", "compile">>
    /\ Get(state, "combined_agent_results", None) = None
    /\ BothSetsEmpty
    /\ state["fallback_message"] = Some(PRIMARY_ERROR_MESSAGE)
    /\ FinalOutput[1]["fallback_used"] = FALSE

(***************************************************************************)
(* C10: when the primary service succeeds with a non-empty result set and  *)
(* no sentinel marker, final_output has fallback_used false, web empty,    *)
(* and the summary and both result sets as the service returned them.      *)
(***************************************************************************)
C10_UsableResultsCompiled ==
    (PrimaryUsable /\ pc = "done") =>
        LET result == retrieved[1].value
        IN  /\ FinalOutput # None
            /\ FinalOutput[1]["fallback_used"] = FALSE
            /\ FinalOutput[1]["web"] = <<>>
            /\ FinalOutput[1]["combined_output"] = result["combined_agent_results"]
            /\ FinalOutput[1]["snowflake"] = Get(result, "snowflake_results", <<>>)
            /\ FinalOutput[1]["rag"] = Get(result, "rag_results", <<>>)

(***************************************************************************)
(* C11: two invocations with the same query and the same answers (or       *)
(* failures) of the services take the same path and end with the same      *)
(* final_output or early_response, however the loop interleaves them.      *)
(***************************************************************************)
Terminal == {"early_exit", "done", "error"}

\* the locals of invocation i of the pair
Local(i) == IF loop.running = i THEN Locals ELSE loop.suspended[1]

SameInputs ==
    /\ loop.initial[1] = loop.initial[2]
    /\ Local(1).classified = Local(2).classified
    /\ Local(1).retrieved = Local(2).retrieved
    /\ Local(1).searched = Local(2).searched

IsPrefix(a, b) ==
    /\ Len(a) <= Len(b)
    /\ \A i \in 1..Len(a) : a[i] = b[i]

Ran(node) == \E i \in 1..Len(trace) : trace[i] = node

C13_CompileOnceLast ==
    /\ (pc \in Terminal /\ pc # "early_exit") =>
          /\ trace # <<>>
          /\ trace[Len(trace)] = "compile"
          /\ Cardinality({i \in 1..Len(trace) : trace[i] = "compile"}) = 1
          /\ FinalOutput # None
    /\ ~Ran("compile") => FinalOutput = None

(***************************************************************************)
(* C14: after the gatekeeper the invocation goes to early_exit exactly     *)
(* when not (is_college_related and safety_check_passed), and to           *)
(* combined_agent otherwise, where both are true.                          *)
(***************************************************************************)
C14_GateRouting ==
    LET accepted == state["is_college_related"] /\ state["safety_check_passed"]
    IN  /\ (trace # <<>> /\ trace[Len(trace)] = "gatekeeper") =>
              /\ (pc = "early_exit") <=> ~accepted
              /\ accepted => pc = "combined_agent"
        /\ pc = "combined_agent" => accepted

(***************************************************************************)
(* C15: check_results_node returns should_fallback = true exactly when     *)
(* both result sets are empty or the summary is non-null and contains the  *)
(* sentinel marker, for every combination of the three, and changes no     *)
(* field of the state.                                                     *)
(***************************************************************************)
ExpectedFallback(s) ==
    \/ s["snowflake_results"] = <<>> /\ s["rag_results"] = <<>>
    \/ /\ s["combined_agent_results"] # None
       /\ \E i \in 1..(Len(s["combined_agent_results"][1]) - Len(SENTINEL) + 1) :
             SubSeq(s["combined_agent_results"][1], i, i + Len(SENTINEL) - 1) = SENTINEL

C15_AdequacyIff ==
    trace = <<"check_results">> =>
        /\ adequacy = Some(ExpectedFallback(loop.initial[1]))
        /\ state = loop.initial[1]

\* a null summary with a non-empty result set
C15_Witness ==
    /\ trace = <<"check_results">>
    /\ state["combined_agent_results"] = None
    /\ state["snowflake_results"] # <<>>
    /\ adequacy = Some(FALSE)

(***************************************************************************)
(* C16: at the end of an invocation fallback_used is true exactly when the *)
(* web node ran or the primary retrieval stage failed; it is false at the  *)
(* start.                                                                  *)
(***************************************************************************)
PrimaryStageFailed == retrieved # None /\ PrimaryTryRaises(retrieved[1])

WebSucceeded == searched # None /\ ~searched[1].raised

C19_OnlySafeInDomain ==
    (pc = "combined_agent" \/ calls.primary > 0) =>
        /\ ClassifierReturned
        /\ classified[1].value["is_college_related"]
        /\ classified[1].value["safety_check_passed"]

(***************************************************************************)
(* C20: two invocations interleaved by the event loop do not affect each   *)
(* other: at every point each one's path and state are what the nodes give *)
(* on its own initial state and its own services' answers, and its         *)
(* user_query is the one it was started with.                              *)
(***************************************************************************)
\* one node of an invocation run alone: from l = [pc, state, trace], given
\* the answers cls, prim and web of its services
AloneStep(l, cls, prim, web) ==
    LET s == l.state
        ran == Append(l.trace, l.pc)
    IN  CASE l.pc = "detect_comparison" ->
                LET s2 == ApplyWrites(s, detect_comparison_node(s))
                IN  [pc |-> detect_comparison_edge(s2), state |-> s2, trace |-> ran]
          [] l.pc = "gatekeeper" ->
                IF CallsClassifier(s) /\ cls[1].raised
                THEN [pc |-> "error", state |-> s, trace |-> ran]
                ELSE LET s2 == ApplyWrites(s, check_prompt_node(s,
                                   IF CallsClassifier(s) THEN cls[1].value ELSE None))
                     IN  [pc |-> gatekeeper_edge(s2), state |-> s2, trace |-> ran]
          [] l.pc = "combined_agent" ->
                [pc |-> "check_results",
                 state |-> ApplyWrites(s, query_combined_agent_node(s, prim[1])),
                 trace |-> ran]
          [] l.pc = "check_results" ->
                LET s2 == ApplyWrites(s, check_results_node(s))
                IN  [pc |-> check_results_edge(s2), state |-> s2, trace |-> ran]
          [] l.pc = "web" ->
                [pc |-> "compile",
                 state |-> ApplyWrites(s, query_web_node(s, web[1])),
                 trace |-> ran]
          [] l.pc = "compile" ->
                [pc |-> "done",
                 state |-> ApplyWrites(s, compile_results(s)),
                 trace |-> ran]
          [] OTHER -> l

RECURSIVE AloneAfter(_, _, _, _, _)
\* the invocation started with initial_state, after n nodes
AloneAfter(initial_state, cls, prim, web, n) ==
    IF n = 0
    THEN [pc |-> "detect_comparison", state |-> initial_state, trace |-> <<>>]
    ELSE AloneStep(AloneAfter(initial_state, cls, prim, web, n - 1), cls, prim, web)

====
